---- MODULE Spec2Model ----
(***************************************************************************)
(* Frame-request service: the UID-keyed request lifecycle of               *)
(* request_frames (src/main.py) over the XmlStorage table of SQLHandler    *)
(* (src/utils/db_managment.py), with the build step utility.main           *)
(* (src/utils/utility.py).                                                 *)
(*                                                                         *)
(* Text is modelled as the sequence of its pieces between occurrences of   *)
(* the separator " | ": "a | b" is <<"a", "b">> and "" is <<"">>.          *)
(* Each worker process runs one request at a time (request_frames is an    *)
(* async handler that never awaits); workers interleave at the store       *)
(* round trips.                                                            *)
(***************************************************************************)
EXTENDS Naturals, Integers, Sequences, FiniteSets, TLC

\* ------------------------------------------------------------------ bounds
\* number of requests the service receives in one run of the model
MaxRequests == 4

\* worker processes of the hosting layer
Workers == {1, 2}

\* request inputs: data.get("uid") ("" stands for a missing or empty uid)
UIDs == {"u1"}
NoUid == ""

\* data.get("hspm_version")
Selectors == {"HSPM 2023.1", "other"}

\* ------------------------------------------------- hspm_version_mapper.py
HSPM_VERSION_MAP ==
    [s \in {"HSPM 2022.1", "HSPM 2023.0", "HSPM 2023.1", "HSPM 2025.0", "HSPM 2026.0"} |->
        CASE s = "HSPM 2022.1" -> "RTDPointCatalog_2022_1.db"
          [] s = "HSPM 2023.0" -> "RTDPointCatalog_2023_0.db"
          [] s = "HSPM 2023.1" -> "RTDPointCatalog_2023_1.db"
          [] s = "HSPM 2025.0" -> "RTDPointCatalog_2025_0.db"
          [] s = "HSPM 2026.0" -> "RTDPointCatalog_2026_0.db"]

None == "None"

\* dict.get: the mapped value, or None
MapGet(s) == IF s \in DOMAIN HSPM_VERSION_MAP THEN HSPM_VERSION_MAP[s] ELSE None

\* main.py: hspm_version = mapped value if truthy else "default_db"
LocalDb(s) == IF MapGet(s) # None THEN MapGet(s) ELSE "default_db"

\* utility.py line 17: module global before any request
InitialHspmVersion == "RTDPointCatalog_2025_0.db"

\* the database files the requests of the model can name
DBs == {LocalDb(s) : s \in Selectors} \cup {InitialHspmVersion}

\* ------------------------------------------------------------------- text
EmptyStr == <<"">>

\* f"FAILED | {error_message}"
FailedDoc(error_message) == <<"FAILED">> \o error_message

\* str(past_result).startswith("FAILED | ")
StartsWithFailed(doc) == Len(doc) >= 2 /\ doc[1] = "FAILED"

\* past_result.split(" | ")[1]
SplitSecond(doc) == <<doc[2]>>

\* documents convert_to_xml can return (never empty: it carries the xml declaration)
Docs == {<<"<Run A/>">>, <<"<Run B/>">>}

MsgNoMwd == <<"MWD tool is missing in frame request!">>
MsgJsonNone == <<"the JSON object must be str, bytes or bytearray, not NoneType">>
MsgRtof == <<"RTOF.json file didn't load correctly. Please check your input.">>
\* mutant: the empty build answers with the remediation advice
MsgEmptyBuild_remediation ==
    <<"Frame Generator was not able to build frame. Increase bit rate or reduce required update rates.">>

MsgEmptyBuild == <<"Unable to build frames for your request. Please check compatibility!">>
MsgPending == <<"Frame Generator was not able to build frame. Increase bit rate or reduce required update rates.">>
MsgStored == <<"Frames generated successfully!">>
MsgBuilt == <<"Frame generated successfully!">>

\* exceptions main can raise after it selected the catalog: a packing error
\* whose text holds the separator, and the null-input JSON failure
BuildErrors == {<<"FSL1: rate", "FSL2: rate">>, MsgJsonNone}

\* except branch of request_frames: the one normalised rewrite
ErrorMessage(e) == IF e = MsgJsonNone THEN MsgRtof ELSE e

\* signer.sign_doc
sign_doc(doc) == <<"<signed>">> \o doc \o <<"</signed>">>

\* ---------------------------------------------------- XmlStorage records
Absent == [doc |-> <<>>, status |-> 0]
PendingRec == [doc |-> EmptyStr, status |-> 200]
Rec(doc, status) == [doc |-> doc, status |-> status]

IsAbsent(rec) == rec = Absent
IsPending(rec) == rec # Absent /\ rec.doc = EmptyStr
IsFailed(rec) == rec # Absent /\ StartsWithFailed(rec.doc)
IsSuccess(rec) == rec # Absent /\ rec.doc # EmptyStr /\ ~StartsWithFailed(rec.doc)

\* SELECT xml_content, status FROM XmlStorage WHERE uid = ?
load_xml_from_sqlite(table, uid) == table[uid]

\* mutant: INSERT OR REPLACE
insert_uid_with_none_replace(table, uid) == [table EXCEPT ![uid] = PendingRec]

\* INSERT OR IGNORE INTO XmlStorage (uid, xml_content, status) VALUES (?, "", 200)
insert_uid_with_none(table, uid) ==
    IF table[uid] = Absent THEN [table EXCEPT ![uid] = PendingRec] ELSE table

\* mutant: the update is guarded by the record still being pending
update_xml_in_sqlite_ifPending(table, uid, xml_content, status) ==
    IF table[uid] = PendingRec THEN [table EXCEPT ![uid] = Rec(xml_content, status)] ELSE table

\* mutant: the update is lost
update_xml_in_sqlite_lost(table, uid, xml_content, status) == table

\* mutant: REPLACE INTO, the write creates the row it does not find
update_xml_in_sqlite_upsert(table, uid, xml_content, status) ==
    [table EXCEPT ![uid] = Rec(xml_content, status)]

\* UPDATE XmlStorage SET xml_content = ?, status = ? WHERE uid = ?
update_xml_in_sqlite(table, uid, xml_content, status) ==
    IF table[uid] = Absent THEN table ELSE [table EXCEPT ![uid] = Rec(xml_content, status)]

\* DELETE FROM XmlStorage WHERE uid = ?
remove_uid_from_db(table, uid) == [table EXCEPT ![uid] = Absent]

\* ------------------------------------------------------------------ state
VARIABLES
    store,          \* database file -> XmlStorage table (uid -> record)
    hspm_version,   \* worker -> the module global of utility.py
    pc,             \* worker -> position of its request in request_frames
    data,           \* worker -> the request being served
    local,          \* worker -> error_message / (xml_string, status) / exception text
    resp,           \* the response returned by the last step, NoResp otherwise
    wrote,          \* the rows an UPDATE statement of the last step changed or rewrote
    done_ok,        \* (db, uid) for which a request has returned with the record in SUCCESS
    received,       \* number of requests received so far
    sql,            \* the last call of a decorated SQLHandler method and how it ended
    inp,            \* argument of the function under study (function specifications)
    out             \* its result

vars == <<store, hspm_version, pc, data, local, resp, wrote, done_ok, received, sql, inp, out>>

\* no SQLHandler call made yet
NoSql == [op |-> "none", uid |-> NoUid, faults |-> <<>>, before |-> [doc |-> <<>>, status |-> 0],
          applied |-> FALSE, raised |-> "none", attempts |-> 0, waited |-> 0]

\* the variables the function specifications use
NoValue == <<>>

NoData == [uid |-> NoUid, hspm_version |-> None]
\* tools_db, points_db: the catalog files main queried for the tools (utility.py
\* line 659) and for the data points and the result (lines 117, 170, 820), None
\* before the query
NoLocal == [xml |-> <<>>, status |-> 0, error |-> <<>>, tools_db |-> None, points_db |-> None]
NoResp == [req |-> 0, uid |-> NoUid, db |-> None, code |-> 0, xml |-> EmptyStr, message |-> <<>>]

\* JSONResponse(status_code, content = {statusCode, xml, message}) returned to worker w's caller
Response(w, code, xml, message) ==
    [req |-> w, uid |-> data[w].uid, db |-> LocalDb(data[w].hspm_version),
     code |-> code, xml |-> xml, message |-> message]

\* no request received, no store call made
Idle ==
    /\ store = [d \in DBs |-> [u \in UIDs \cup {NoUid} |-> Absent]]
    /\ hspm_version = [w \in Workers |-> InitialHspmVersion]
    /\ pc = [w \in Workers |-> "idle"]
    /\ data = [w \in Workers |-> NoData]
    /\ local = [w \in Workers |-> NoLocal]
    /\ resp = NoResp
    /\ wrote = {}
    /\ done_ok = {}
    /\ received = 0
    /\ sql = NoSql

Init ==
    /\ Idle
    /\ inp = NoValue
    /\ out = NoValue

\* the store the request's own selector names (main.py lines 30-31)
DbOf(w) == LocalDb(data[w].hspm_version)

\* the request returns: the worker is free again
Return(w, response) ==
    /\ pc' = [pc EXCEPT ![w] = "idle"]
    /\ data' = [data EXCEPT ![w] = NoData]
    /\ local' = [local EXCEPT ![w] = NoLocal]
    /\ resp' = response

\* history: the request of worker w returns now, with its record in SUCCESS or not
Ended(d, u) ==
    done_ok' = IF IsSuccess(store'[d][u]) THEN done_ok \cup {<<d, u>>} ELSE done_ok

\* mutant: only a request without the uid key is refused
Rejects_onlyMissing(uid) == uid = None

\* main.py line 27, "not uid": data.get("uid") is None or the empty string
Rejects(uid) == uid = None \/ uid = NoUid

\* the values data.get("uid") can have
RequestUids == UIDs \cup {NoUid, None}

\* main.py lines 26-28: a request without uid is refused with HTTPException(400)
RequestFrames_NoUid(w, uid) ==
    /\ UNCHANGED <<sql, inp, out>>
    /\ pc[w] = "idle"
    /\ Rejects(uid)
    /\ received < MaxRequests
    /\ received' = received + 1
    /\ resp' = [NoResp EXCEPT !.req = w, !.uid = uid, !.code = 400,
                              !.message = <<"UID is missing in the request.">>]
    /\ wrote' = {}
    /\ UNCHANGED <<store, hspm_version, pc, data, local, done_ok>>

\* mutant: a record without result sends the request into the build path again
Branch_reenter(past_result) ==
    IF past_result # Absent /\ past_result.doc # EmptyStr
    THEN IF StartsWithFailed(past_result.doc) THEN "failed" ELSE "stored"
    ELSE "build"

\* mutant: the test for an empty document is missing
Branch_emptyStored(past_result) ==
    IF past_result # Absent
    THEN IF StartsWithFailed(past_result.doc) THEN "failed" ELSE "stored"
    ELSE "build"

\* main.py lines 37-60: what request_frames does with the record it read
Branch(past_result) ==
    IF past_result # Absent
    THEN IF past_result.doc = EmptyStr THEN "no result"
         ELSE IF StartsWithFailed(past_result.doc) THEN "failed"
         ELSE "stored"
    ELSE "build"

\* main.py lines 26-60: a request arrives and reads its record
RequestFrames_Load(w, u, s) ==
    /\ UNCHANGED <<sql, inp, out>>
    /\ pc[w] = "idle"
    /\ received < MaxRequests
    /\ received' = received + 1
    /\ ~Rejects(u)
    /\ wrote' = {}
    /\ UNCHANGED <<store, hspm_version>>
    /\ LET d == LocalDb(s)
           past_result == load_xml_from_sqlite(store[d], u)
           rsp(code, xml, message) ==
               [req |-> w, uid |-> u, db |-> d, code |-> code, xml |-> xml, message |-> message]
       IN  CASE Branch(past_result) = "no result" ->
                     /\ Return(w, rsp(503, EmptyStr, MsgPending))
                     /\ Ended(d, u)
             [] Branch(past_result) = "failed" ->
                     /\ pc' = [pc EXCEPT ![w] = "clear"]
                     /\ data' = [data EXCEPT ![w] = [uid |-> u, hspm_version |-> s]]
                     /\ local' = [local EXCEPT ![w].error = SplitSecond(past_result.doc)]
                     /\ resp' = NoResp
                     /\ UNCHANGED done_ok
             [] Branch(past_result) = "stored" ->
                     /\ Return(w, rsp(past_result.status, sign_doc(past_result.doc), MsgStored))
                     /\ Ended(d, u)
             [] Branch(past_result) = "build" ->
                     /\ pc' = [pc EXCEPT ![w] = "insert"]
                     /\ data' = [data EXCEPT ![w] = [uid |-> u, hspm_version |-> s]]
                     /\ resp' = NoResp
                     /\ UNCHANGED <<local, done_ok>>

\* main.py lines 45-51 and 94-96: clear_db_on_failure, then the 406 answer
ClearDbOnFailure(w) ==
    /\ UNCHANGED <<sql, inp, out>>
    /\ UNCHANGED received
    /\ pc[w] = "clear"
    /\ store' = [store EXCEPT ![DbOf(w)] = remove_uid_from_db(@, data[w].uid)]
    /\ Return(w, Response(w, 406, EmptyStr, local[w].error))
    /\ Ended(DbOf(w), data[w].uid)
    /\ wrote' = {}
    /\ UNCHANGED hspm_version

\* main.py line 60: db.insert_uid_with_none(uid)
RequestFrames_Insert(w) ==
    /\ UNCHANGED <<sql, inp, out>>
    /\ UNCHANGED received
    /\ pc[w] = "insert"
    /\ store' = [store EXCEPT ![DbOf(w)] = insert_uid_with_none(@, data[w].uid)]
    /\ pc' = [pc EXCEPT ![w] = "main"]
    /\ resp' = NoResp
    /\ wrote' = {}
    /\ UNCHANGED <<hspm_version, data, local, done_ok>>

\* utility.py lines 670-675: the module global follows a selector the map knows
SelectCatalog(w) ==
    IF MapGet(data[w].hspm_version) # None THEN MapGet(data[w].hspm_version) ELSE hspm_version[w]

\* utility.py lines 658-663: no resolved tool is an MWD tool
Main_NoMwd(w) ==
    /\ UNCHANGED <<sql, inp, out>>
    /\ UNCHANGED received
    /\ pc[w] = "main"
    /\ pc' = [pc EXCEPT ![w] = "except"]
    /\ local' = [local EXCEPT ![w].error = MsgNoMwd, ![w].tools_db = hspm_version[w]]
    /\ resp' = NoResp
    /\ wrote' = {}
    /\ UNCHANGED <<store, hspm_version, data, done_ok>>

\* utility.py lines 665-814: the build raises after the catalog was selected
Main_Raise(w, e) ==
    /\ UNCHANGED <<sql, inp, out>>
    /\ UNCHANGED received
    /\ pc[w] = "main"
    /\ hspm_version' = [hspm_version EXCEPT ![w] = SelectCatalog(w)]
    /\ pc' = [pc EXCEPT ![w] = "except"]
    /\ local' = [local EXCEPT ![w].error = e, ![w].tools_db = hspm_version[w],
                                ![w].points_db = SelectCatalog(w)]
    /\ resp' = NoResp
    /\ wrote' = {}
    /\ UNCHANGED <<store, data, done_ok>>

\* utility.py lines 665-823: the build succeeds, main stores and returns (xml_string, status)
Main_Ok(w, xml_string, status) ==
    /\ UNCHANGED <<sql, inp, out>>
    /\ UNCHANGED received
    /\ pc[w] = "main"
    /\ hspm_version' = [hspm_version EXCEPT ![w] = SelectCatalog(w)]
    /\ store' = [store EXCEPT ![SelectCatalog(w)] =
                    update_xml_in_sqlite(@, data[w].uid, xml_string, status)]
    /\ wrote' = IF store[SelectCatalog(w)][data[w].uid] # Absent
                THEN {<<SelectCatalog(w), data[w].uid>>} ELSE {}
    /\ pc' = [pc EXCEPT ![w] = "save"]
    /\ local' = [local EXCEPT ![w].xml = xml_string, ![w].status = status,
                                ![w].tools_db = hspm_version[w],
                                ![w].points_db = SelectCatalog(w)]
    /\ resp' = NoResp
    /\ UNCHANGED <<data, done_ok>>

\* mutant: the failure is stored without its prefix
FailedRec_noPrefix(error_message) == Rec(error_message, 406)

\* mutant: the failure is stored with the default code
FailedRec_200(error_message) == Rec(FailedDoc(error_message), 200)

\* the record finalize_failed persists
FailedRec(error_message) == Rec(FailedDoc(error_message), 406)

\* main.py lines 64-80: the result of main is stored again and answered
RequestFrames_Save(w) ==
    /\ UNCHANGED <<sql, inp, out>>
    /\ UNCHANGED received
    /\ pc[w] = "save"
    /\ LET d == DbOf(w)
           u == data[w].uid
           xml_string == local[w].xml
           status == local[w].status
       IN  /\ wrote' = IF store[d][u] # Absent THEN {<<d, u>>} ELSE {}
           /\ IF xml_string # EmptyStr
              THEN /\ store' = [store EXCEPT ![d] = update_xml_in_sqlite(@, u, xml_string, status)]
                   /\ Return(w, Response(w, status, sign_doc(xml_string), MsgBuilt))
              ELSE /\ store' = [store EXCEPT ![d] =
                          update_xml_in_sqlite(@, u, FailedRec(MsgEmptyBuild).doc,
                                               FailedRec(MsgEmptyBuild).status)]
                   /\ Return(w, Response(w, 406, EmptyStr, MsgEmptyBuild))
           /\ Ended(d, u)
    /\ UNCHANGED hspm_version

\* main.py lines 82-92: any exception of the build path
RequestFrames_Except(w) ==
    /\ UNCHANGED <<sql, inp, out>>
    /\ UNCHANGED received
    /\ pc[w] = "except"
    /\ LET d == DbOf(w)
           u == data[w].uid
           error_message == ErrorMessage(local[w].error)
       IN  /\ wrote' = IF store[d][u] # Absent THEN {<<d, u>>} ELSE {}
           /\ store' = [store EXCEPT ![d] =
                  update_xml_in_sqlite(@, u, FailedRec(error_message).doc,
                                       FailedRec(error_message).status)]
           /\ Return(w, Response(w, 406, EmptyStr, error_message))
           /\ Ended(d, u)
    /\ UNCHANGED hspm_version

\* the worker process fails during a build: nothing more is written, and the
\* restarted process has the module global of a fresh import
Crash(w) ==
    /\ UNCHANGED <<sql, inp, out>>
    /\ UNCHANGED received
    /\ pc[w] \in {"main", "save", "except"}
    /\ pc' = [pc EXCEPT ![w] = "idle"]
    /\ data' = [data EXCEPT ![w] = NoData]
    /\ local' = [local EXCEPT ![w] = NoLocal]
    /\ hspm_version' = [hspm_version EXCEPT ![w] = InitialHspmVersion]
    /\ resp' = NoResp
    /\ wrote' = {}
    /\ UNCHANGED <<store, done_ok>>

Next ==
    \E w \in Workers :
        \/ \E uid \in RequestUids : RequestFrames_NoUid(w, uid)
        \/ \E u \in RequestUids, s \in Selectors : RequestFrames_Load(w, u, s)
        \/ ClearDbOnFailure(w)
        \/ RequestFrames_Insert(w)
        \/ Main_NoMwd(w)
        \/ \E e \in BuildErrors : Main_Raise(w, e)
        \/ \E xml_string \in Docs, status \in {200, 209} : Main_Ok(w, xml_string, status)
        \/ RequestFrames_Save(w)
        \/ RequestFrames_Except(w)
        \/ Crash(w)

Spec == Init /\ [][Next]_vars

\* =================================================================== claims

\* worker w receives, in this step, a request for uid u under the store d
Arrives(w, d, u) ==
    /\ pc[w] = "idle"
    /\ received' = received + 1
    /\ \/ pc'[w] # "idle" /\ data'[w].uid = u /\ LocalDb(data'[w].hspm_version) = d
       \/ pc'[w] = "idle" /\ resp'.req = w /\ resp'.uid = u /\ resp'.db = d

\* worker w returns, in this step, from the request it was serving at position p
Returns(w, p) == pc[w] = p /\ resp'.req = w

Keys == DBs \X UIDs

\* C1: once a request for a UID has ended with the record in SUCCESS, every
\* later request for it performs no build, returns the stored document with
\* the stored status code, and leaves the record unchanged.
C1_IdempotentAfterSuccess ==
    [][\A w \in Workers, k \in Keys :
          (k \in done_ok /\ Arrives(w, k[1], k[2])) =>
              /\ IsSuccess(store[k[1]][k[2]])
              /\ pc'[w] = "idle"
              /\ resp'.code = store[k[1]][k[2]].status
              /\ resp'.xml = <<"<signed>">> \o store[k[1]][k[2]].doc \o <<"</signed>">>
              /\ store' = store]_vars

\* C2 (as stated): a request whose tools resolve to no MWD tool leaves no
\* record for its UID.
C2_RejectedBeforeStateChange ==
    (resp.req # 0 /\ resp.message = MsgNoMwd) => store[resp.db][resp.uid] = Absent

\* C2 (amended): the missing MWD tool is found by the build, after the record
\* was created; the request answers 406 with the message and finalizes the
\* record, if it still exists, as FAILED with that message and code 406.
C2_NoMwdFinalizedFailed ==
    [][\A w \in Workers :
          (Returns(w, "except") /\ local[w].error = MsgNoMwd) =>
              LET d == DbOf(w)
                  u == data[w].uid
              IN  /\ resp'.code = 406 /\ resp'.xml = EmptyStr /\ resp'.message = MsgNoMwd
                  /\ store'[d][u] = IF store[d][u] = Absent THEN Absent
                                    ELSE [doc |-> <<"FAILED">> \o MsgNoMwd, status |-> 406]]_vars

C2_Witness ==
    /\ resp.req # 0 /\ resp.code = 406 /\ resp.message = MsgNoMwd
    /\ wrote = {<<resp.db, resp.uid>>}
    /\ store[resp.db][resp.uid] = [doc |-> <<"FAILED">> \o MsgNoMwd, status |-> 406]

Class(rec) ==
    IF rec = Absent THEN "ABSENT"
    ELSE IF rec.doc = EmptyStr THEN "PENDING"
    ELSE IF StartsWithFailed(rec.doc) THEN "FAILED" ELSE "SUCCESS"

Moves == {<<"ABSENT", "PENDING">>, <<"PENDING", "SUCCESS">>,
          <<"PENDING", "FAILED">>, <<"FAILED", "ABSENT">>}

\* C3: every record only moves ABSENT -> PENDING, PENDING -> SUCCESS,
\* PENDING -> FAILED and FAILED -> ABSENT.
C3_LifecycleMoves ==
    [][\A k \in Keys :
          \/ Class(store'[k[1]][k[2]]) = Class(store[k[1]][k[2]])
          \/ <<Class(store[k[1]][k[2]]), Class(store'[k[1]][k[2]])>> \in Moves]_vars

\* C4: nothing keeps a second request for the same UID from building: the
\* insert lets it pass whether or not the record exists, and a finalizing
\* write replaces whatever the record holds, so the last finalizer wins.
C4_LastFinalizerWins ==
    [][\A w \in Workers :
          /\ (pc[w] = "insert" /\ pc'[w] # "insert") =>
                 pc'[w] = "main" /\ store'[DbOf(w)][data[w].uid] # Absent
          /\ (Returns(w, "save") /\ store[DbOf(w)][data[w].uid] # Absent) =>
                 store'[DbOf(w)][data[w].uid] = [doc |-> local[w].xml, status |-> local[w].status]
          /\ (Returns(w, "except") /\ store[DbOf(w)][data[w].uid] # Absent) =>
                 store'[DbOf(w)][data[w].uid] =
                     [doc |-> <<"FAILED">> \o ErrorMessage(local[w].error), status |-> 406]]_vars

\* two requests for one UID and one store have both read the record as absent
\* and both built, with different documents
C4_Witness ==
    \E w1, w2 \in Workers :
        /\ w1 # w2
        /\ pc[w1] = "save" /\ pc[w2] = "save"
        /\ data[w1] = data[w2]
        /\ local[w1].xml # local[w2].xml

\* no request for uid u is being served
NoneInFlight(u) == \A w \in Workers : data[w].uid # u

\* a PENDING record whose build is gone
Orphan(d, u) == IsPending(store[d][u]) /\ NoneInFlight(u)

\* C5 (as stated): a request for a UID whose PENDING record was left behind
\* by a failed process enters the build path again.
C5_PendingReentersBuild ==
    [][\A w \in Workers, k \in Keys :
          (Orphan(k[1], k[2]) /\ Arrives(w, k[1], k[2])) => pc'[w] \in {"insert", "main"}]_vars

\* C5 (amended): a PENDING record left behind by a failed process stays
\* PENDING; a request that addresses it is answered 503 and builds nothing.
C5_PendingStaysPending ==
    [][\A k \in Keys :
          Orphan(k[1], k[2]) =>
              /\ IsPending(store'[k[1]][k[2]])
              /\ \A w \in Workers :
                    Arrives(w, k[1], k[2]) => pc'[w] = "idle" /\ resp'.code = 503]_vars

C5_Witness ==
    /\ resp.req # 0 /\ resp.code = 503
    /\ Orphan(resp.db, resp.uid)

\* C6: a request that finds its record with an empty document answers 503
\* with an empty xml, builds nothing and changes nothing in the store.
C6_PendingAnswers503 ==
    [][\A w \in Workers, k \in Keys :
          (Arrives(w, k[1], k[2]) /\ IsPending(store[k[1]][k[2]])) =>
              /\ pc'[w] = "idle"
              /\ resp' = [req |-> w, uid |-> k[2], db |-> k[1], code |-> 503,
                          xml |-> EmptyStr, message |-> MsgPending]
              /\ store' = store
              /\ wrote' = {}]_vars

C6_Witness ==
    /\ resp.req # 0 /\ resp.code = 503 /\ resp.xml = EmptyStr
    /\ IsPending(store[resp.db][resp.uid])
    /\ \E w \in Workers : pc[w] \in {"main", "save", "except"} /\ data[w].uid = resp.uid

\* C7: a request that finds its record FAILED answers 406 with the stored
\* failure message, builds nothing and deletes the record; a request that
\* then finds no record performs a fresh build.
C7_ResubmissionAfterFailure ==
    [][\A w \in Workers :
          /\ \A k \in Keys :
                (Arrives(w, k[1], k[2]) /\ IsFailed(store[k[1]][k[2]])) =>
                    /\ pc'[w] = "clear"
                    /\ <<"FAILED">> \o local'[w].error = store[k[1]][k[2]].doc
                    /\ store' = store
          /\ Returns(w, "clear") =>
                 /\ resp'.code = 406 /\ resp'.xml = EmptyStr /\ resp'.message = local[w].error
                 /\ store'[DbOf(w)][data[w].uid] = Absent
          /\ \A k \in Keys :
                (Arrives(w, k[1], k[2]) /\ store[k[1]][k[2]] = Absent) => pc'[w] = "insert"]_vars

\* C8: every failure of the build path is caught: the request answers 406
\* with the message and its record ends as FAILED.
C8_FailuresEndFailed ==
    [][\A w \in Workers :
          Returns(w, "except") =>
              /\ resp'.code = 406
              /\ resp'.message = ErrorMessage(local[w].error)
              /\ IsFailed(store'[DbOf(w)][data[w].uid])]_vars

C10_FailedHas406 ==
    /\ \A k \in Keys :
          LET rec == store[k[1]][k[2]]
          IN  rec # Absent =>
                  /\ StartsWithFailed(rec.doc) => rec.status = 406
                  /\ rec.status \in {200, 209} => ~StartsWithFailed(rec.doc)
    /\ (resp.req # 0 /\ resp.code = 406) =>
          \A k \in wrote : store[k[1]][k[2]] = [doc |-> <<"FAILED">> \o resp.message, status |-> 406]

C10_Witness ==
    /\ resp.req # 0 /\ resp.code = 406
    /\ wrote = {<<resp.db, resp.uid>>}
    /\ IsFailed(store[resp.db][resp.uid])
    /\ store[resp.db][resp.uid].status = 406

\* ======================================== SQLHandler calls under store faults
\* (db_managment.py): one connection, one decorated method call per step

\* retries = 5 in retry_on_lock
Retries == 5

\* what one execution of a statement can meet: success, sqlite3.OperationalError
\* "database is locked", or another sqlite3.Error
SqliteErrors == {"locked", "error"}
Faults == {"none"} \cup SqliteErrors

\* the fault each attempt of one call would meet; the attempts after the first
\* one that does not meet a lock are not distinguished
FaultRuns ==
    {f \in [1..Retries -> Faults] :
        \A i \in 1..Retries : f[i] # "locked" => \A j \in (i + 1)..Retries : f[j] = "none"}

\* the body of a decorated method: try: execute, commit / except sqlite3.Error: log.
\* Tells whether the statement took effect and which exception leaves the body.
MethodBody(fault) ==
    [applied |-> fault = "none",
     raised |-> IF fault \in SqliteErrors THEN "none" ELSE fault]

\* retry_on_lock.wrapper: for attempt in range(retries), from the given attempt on
RECURSIVE retry_on_lock(_, _)
retry_on_lock(faults, attempt) ==
    LET r == MethodBody(faults[attempt + 1])
    IN  IF r.raised = "none"
        THEN [applied |-> r.applied, raised |-> "none", attempts |-> attempt + 1, waited |-> 0]
        ELSE IF r.raised = "locked" /\ attempt < Retries - 1
        THEN LET rest == retry_on_lock(faults, attempt + 1)
             IN  [rest EXCEPT !.waited = @ + (attempt + 1)]
        ELSE [applied |-> FALSE, raised |-> r.raised, attempts |-> attempt + 1, waited |-> 0]

\* the database file of the connection: SQLHandler() without argument
HandlerDb == "RTDPointCatalog_2025_0.db"

\* the values the callers pass to update_xml_in_sqlite
StoredValues ==
    {Rec(xml, 200) : xml \in Docs} \cup {Rec(xml, 209) : xml \in Docs}
        \cup {Rec(FailedDoc(MsgNoMwd), 406)}

\* what a decorated call leaves in sql, given the faults its attempts meet
SqlResult(op, u, faults) ==
    LET res == retry_on_lock(faults, 0)
    IN  [op |-> op, uid |-> u, faults |-> faults, before |-> store[HandlerDb][u],
         applied |-> res.applied, raised |-> res.raised,
         attempts |-> res.attempts, waited |-> res.waited]

Sql_Insert(u, faults) ==
    /\ sql' = SqlResult("insert", u, faults)
    /\ store' = [store EXCEPT ![HandlerDb] =
                     IF sql'.applied THEN insert_uid_with_none(@, u) ELSE @]
    /\ UNCHANGED <<hspm_version, pc, data, local, resp, wrote, done_ok, received, inp, out>>

Sql_Update(u, rec, faults) ==
    /\ sql' = SqlResult("update", u, faults)
    /\ store' = [store EXCEPT ![HandlerDb] =
                     IF sql'.applied THEN update_xml_in_sqlite(@, u, rec.doc, rec.status) ELSE @]
    /\ UNCHANGED <<hspm_version, pc, data, local, resp, wrote, done_ok, received, inp, out>>

Sql_Remove(u, faults) ==
    /\ sql' = SqlResult("remove", u, faults)
    /\ store' = [store EXCEPT ![HandlerDb] =
                     IF sql'.applied THEN remove_uid_from_db(@, u) ELSE @]
    /\ UNCHANGED <<hspm_version, pc, data, local, resp, wrote, done_ok, received, inp, out>>

SqlNext ==
    \E u \in UIDs, faults \in FaultRuns :
        \/ Sql_Insert(u, faults)
        \/ \E rec \in StoredValues : Sql_Update(u, rec, faults)
        \/ Sql_Remove(u, faults)

SpecSql == Init /\ [][SqlNext]_vars

\* ------------------------------------------------------------ claims C11-C12

\* the first attempt without fault, 0 when every attempt meets one
RECURSIVE FirstClear(_, _)
FirstClear(faults, i) ==
    IF i > Len(faults) THEN 0
    ELSE IF faults[i] = "none" THEN i ELSE FirstClear(faults, i + 1)

\* the attempts before number n all met the locked condition
LockedBefore(faults, n) == \A i \in 1..(n - 1) : faults[i] = "locked"

\* C11: a mutating call that meets "locked" is attempted again, up to 5
\* attempts; when the lock clears within them the mutation is applied, and the
\* locked error reaches the caller only after the fifth attempt failed.
C11_LockedIsRetried ==
    sql.op # "none" =>
        /\ (FirstClear(sql.faults, 1) > 0 /\ LockedBefore(sql.faults, FirstClear(sql.faults, 1))) =>
               /\ sql.applied
               /\ sql.attempts = FirstClear(sql.faults, 1)
               /\ sql.raised = "none"
        /\ LockedBefore(sql.faults, Retries + 1) =>
               sql.attempts = Retries /\ sql.raised = "locked" /\ ~sql.applied

\* C12: a storage error other than "locked" is not retried and reaches the
\* caller of the operation.
C12_OtherErrorPropagates ==
    (sql.op # "none" /\ sql.faults[1] = "error") =>
        sql.attempts = 1 /\ sql.raised = "error" /\ ~sql.applied

\* ------------------------------------------------------------------ claim C18

\* C18: insert_uid_with_none on a UID that has a record leaves its document and
\* status code as they were, whatever they are; on an absent UID it creates the
\* record with an empty document and code 200.
C18_InsertOrIgnore ==
    (sql.op = "insert" /\ sql.applied) =>
        store[HandlerDb][sql.uid] =
            IF sql.before = [doc |-> <<>>, status |-> 0]
            THEN [doc |-> <<"">>, status |-> 200]
            ELSE sql.before

\* an insert took effect on a UID whose record held a failure document
C18_Witness ==
    /\ sql.op = "insert" /\ sql.applied
    /\ sql.before.status = 406
    /\ store[HandlerDb][sql.uid].status = 406

\* ============================== the error mapping of the packing service
\* (utility.py main, lines 758-814), as a function of the mapping alone

\* framesets and fields of the error mapping, in the order the dicts hold them
ErrFramesets == <<"fsl1", "fsl2">>
ErrFields == <<"mtf", "gtf">>

\* message-or-absent; a falsy message ("" or None) is absent
NoMsg == ""
Messages == {"Failed to build frame", "Rules for GWD (no tool rule) broken", "Bit rate exceeded"}

\* 'Rules for ' in msg
HasRules(msg) == msg = "Rules for GWD (no tool rule) broken"

\* msg.split(' (no ')[0]
BeforeNo(msg) == IF msg = "Rules for GWD (no tool rule) broken" THEN "Rules for GWD" ELSE msg

\* fsl.upper()
Upper(fsl) == IF fsl = "fsl1" THEN "FSL1" ELSE IF fsl = "fsl2" THEN "FSL2" ELSE fsl

ErrorMappings == [{"fsl1", "fsl2"} -> [{"mtf", "gtf"} -> Messages \cup {NoMsg}]]

\* {fsl: msg for fsl, sub_dict in errors.items() for msg in sub_dict.values() if msg}:
\* a dict, so a later message of a frameset replaces an earlier one.
\* Gives the (frameset, message) items of the dict in order.
RECURSIVE LastMessage(_, _)
LastMessage(sub_dict, i) ==
    IF i = 0 THEN NoMsg
    ELSE IF sub_dict[ErrFields[i]] # NoMsg THEN sub_dict[ErrFields[i]]
    ELSE LastMessage(sub_dict, i - 1)

RECURSIVE ErrorItems(_, _)
ErrorItems(errors, i) ==
    IF i > Len(ErrFramesets) THEN <<>>
    ELSE LET fsl == ErrFramesets[i]
             msg == LastMessage(errors[fsl], Len(ErrFields))
         IN  (IF msg # NoMsg THEN <<[fsl |-> fsl, msg |-> msg]>> ELSE <<>>)
                 \o ErrorItems(errors, i + 1)

\* [f'{fsl.upper()}: {msg}' for fsl, msg in errors.items()]
FailedToBuildTest(item) == TRUE
failed_to_build(items) ==
    LET sel == SelectSeq(items, FailedToBuildTest)
    IN  [k \in 1..Len(sel) |-> [fsl |-> Upper(sel[k].fsl), glue |-> ": ", msg |-> sel[k].msg]]

\* [msg for fsl, msg in errors.items() if 'Rules for ' in msg]
ToolNotCompatibleTest(item) == HasRules(item.msg)
tool_not_compatible(items) ==
    LET sel == SelectSeq(items, ToolNotCompatibleTest)
    IN  [k \in 1..Len(sel) |-> sel[k].msg]

\* the ValueError raised for the mapping: the separator of the join and the
\* joined elements; "none" when the mapping holds no message
RaisedFor(errors) ==
    LET items == ErrorItems(errors, 1)
    IN  IF items = <<>> THEN [sep |-> "none", parts |-> <<>>]
        ELSE IF failed_to_build(items) # <<>>
        THEN [sep |-> "\n", parts |-> failed_to_build(items)]
        ELSE IF tool_not_compatible(items) # <<>>
        THEN [sep |-> "",
              parts |-> <<[fsl |-> "", glue |-> "",
                           msg |-> BeforeNo(tool_not_compatible(items)[1])]>>]
        ELSE [sep |-> " | ",
              parts |-> [k \in 1..Len(items) |->
                            [fsl |-> Upper(items[k].fsl), glue |-> " - ", msg |-> items[k].msg]]]

InitErrors ==
    /\ Idle
    /\ inp \in {<<errors>> : errors \in ErrorMappings}
    /\ out = NoValue

CheckErrors ==
    /\ out = NoValue
    /\ out' = <<RaisedFor(inp[1])>>
    /\ UNCHANGED <<store, hspm_version, pc, data, local, resp, wrote, done_ok, received, sql, inp>>

SpecErrors == InitErrors /\ [][CheckErrors]_vars

\* ------------------------------------------------------------------ claim C13

\* every message the mapping reports, frameset by frameset, field by field
RECURSIVE Reported(_, _, _)
Reported(errors, i, j) ==
    IF i > Len(ErrFramesets) THEN <<>>
    ELSE IF j > Len(ErrFields) THEN Reported(errors, i + 1, 1)
    ELSE LET msg == errors[ErrFramesets[i]][ErrFields[j]]
         IN  (IF msg # NoMsg THEN <<msg>> ELSE <<>>) \o Reported(errors, i, j + 1)

\* the classes of message the priority rule tells apart
IsHard(msg) == msg = "Failed to build frame"
IsCompat(msg) == msg = "Rules for GWD (no tool rule) broken"

\* the messages a raised error carries
Carried(raised) == [k \in 1..Len(raised.parts) |-> raised.parts[k].msg]

\* C13: the failure message is chosen by priority: the hard build failures,
\* all of them, joined by newlines; else the first tool-compatibility message,
\* reformatted; else all messages joined by " | ". No message of the selected
\* class is lost.
C13_MessageByPriority ==
    (out # NoValue /\ Reported(inp[1], 1, 1) # <<>>) =>
        LET rep == Reported(inp[1], 1, 1)
            hard == SelectSeq(rep, IsHard)
            compat == SelectSeq(rep, IsCompat)
        IN  IF hard # <<>>
            THEN out[1].sep = "\n" /\ Carried(out[1]) = hard
            ELSE IF compat # <<>>
            THEN out[1].sep = "" /\ Carried(out[1]) = <<"Rules for GWD">>
            ELSE out[1].sep = " | " /\ Carried(out[1]) = rep

\* ===================================== a build that returns no document
\* (main.py lines 62-80 with main returning an empty xml_string and no exception)

NextEmptyBuild ==
    \/ Next
    \/ \E w \in Workers, status \in {200, 209} : Main_Ok(w, EmptyStr, status)

SpecEmptyBuild == Init /\ [][NextEmptyBuild]_vars

\* ------------------------------------------------------------------ claim C14

\* worker w returns, in this step, from a build that gave it no document
ReturnsEmptyBuild(w) == Returns(w, "save") /\ local[w].xml = <<"">>

C16_OwnCatalog ==
    \A w \in Workers :
        pc[w] \in {"save", "except"} =>
            LET own == IF MapGet(data[w].hspm_version) # None
                       THEN {MapGet(data[w].hspm_version)}
                       ELSE {"default_db", "RTDPointCatalog_2025_0.db"}
            IN  /\ local[w].tools_db \in own
                /\ local[w].points_db \in own \cup {None}

\* ------------------------------------------------------------------ claim C17

\* worker w receives, in this step, a request whose uid is uid
ArrivesWith(w, uid) ==
    /\ pc[w] = "idle"
    /\ received' = received + 1
    /\ \/ pc'[w] # "idle" /\ data'[w].uid = uid
       \/ pc'[w] = "idle" /\ resp'.req = w /\ resp'.uid = uid

\* C17: a request with a missing or empty UID is answered 400 at once: no
\* build starts, and the store is the same before and after the request.
C17_NoUidRejected ==
    [][\A w \in Workers, uid \in {"", "None"} :
          ArrivesWith(w, uid) =>
              /\ resp'.req = w /\ resp'.code = 400
              /\ pc'[w] = "idle"
              /\ wrote' = {}
              /\ store' = store]_vars

\* a request with an empty uid was refused while the store held a record
C17_Witness ==
    /\ resp.req # 0 /\ resp.code = 400 /\ resp.uid = ""
    /\ \E k \in Keys : store[k[1]][k[2]] # Absent

\* ======================================= resolution of the tools of a request
\* (utility.py get_lwd_version, get_mwd_version, get_size, get_tools_list),
\* as a function of tools_data and section_size. Texts are sequences of characters.

MaxTools == 2

Digits == {"0", "1", "2", "3", "4", "5", "6", "7", "8", "9"}

\* the rows of Tool joined with ToolVersion, in the order of ToolID:
\* ToolID, DisplayToolName, IsMWDTool and the versions ORDER BY Version DESC
Catalog ==
    <<[tool_id |-> "DVDXTTOOL", display_name |-> "DVDXT", is_mwd |-> TRUE,
       versions |-> <<<<"1", "1", "0">>, <<"1", "0", "0">>>>],
      [tool_id |-> "ECOTOOL", display_name |-> "ECO", is_mwd |-> FALSE,
       versions |-> <<<<"7", "1">>>>],
      [tool_id |-> "IMPTOOL", display_name |-> "IMP", is_mwd |-> TRUE,
       versions |-> <<<<"1", "7", "0">>, <<"1", "6", "0">>>>]>>

\* NAME and VERSION of the entries of tools_data
ToolNames == {"DVDXT", "ECO", "IMP", "GWD"}
VersionTexts ==
    {<<"v", "1", "6", ".", "0">>, <<"v", " ", "1", "6">>, <<"V", "8", ".", "0">>,
     <<"8", ".", "0">>, <<>>}
ToolEntries == [NAME : ToolNames, VERSION : VersionTexts]

\* section_size in tenths of an inch
SectionSizes == {70, 160}

\* the end of the run of characters of a class that starts at position i
RECURSIVE RunEnd(_, _, _)
RunEnd(text, i, class) ==
    IF i <= Len(text) /\ text[i] \in class THEN RunEnd(text, i + 1, class) ELSE i

\* re.compile("v\s*(\d+)(?:\.(\d+))?", re.IGNORECASE).search(text): group 1 of
\* the leftmost match, <<>> when nothing matches
RECURSIVE MwdSearch(_, _)
MwdSearch(text, i) ==
    IF i > Len(text) THEN <<>>
    ELSE LET j == RunEnd(text, i + 1, {" "})
             k == RunEnd(text, j, Digits)
         IN  IF text[i] \in {"v", "V"} /\ k > j
             THEN SubSeq(text, j, k - 1)
             ELSE MwdSearch(text, i + 1)

\* re.search("v\d+\.\d+", text): group 0 of the leftmost match, <<>> when
\* nothing matches
RECURSIVE LwdSearch(_, _)
LwdSearch(text, i) ==
    IF i > Len(text) THEN <<>>
    ELSE LET j == RunEnd(text, i + 1, Digits)
             k == RunEnd(text, j + 1, Digits)
         IN  IF /\ text[i] = "v" /\ j > i + 1
                /\ j <= Len(text) /\ text[j] = "." /\ k > j + 1
             THEN SubSeq(text, i, k - 1)
             ELSE LwdSearch(text, i + 1)

\* get_lwd_version: match.group(0).lstrip("v") of the first entry of that name
\* that matches, None (<<>>) when there is none
RECURSIVE get_lwd_version(_, _)
get_lwd_version(tool_name, tools_data) ==
    IF tools_data = <<>> THEN <<>>
    ELSE LET tool == Head(tools_data)
             match == LwdSearch(tool.VERSION, 1)
         IN  IF tool.NAME = tool_name /\ match # <<>>
             THEN Tail(match)
             ELSE get_lwd_version(tool_name, Tail(tools_data))

\* mutant: the major number is returned as it is
RECURSIVE get_mwd_version_noZero(_, _)
get_mwd_version_noZero(tool_name, tools_data) ==
    IF tools_data = <<>> THEN <<>>
    ELSE LET tool == Head(tools_data)
             match == MwdSearch(tool.VERSION, 1)
         IN  IF tool.NAME = tool_name /\ match # <<>>
             THEN match
             ELSE get_mwd_version_noZero(tool_name, Tail(tools_data))

\* get_mwd_version: match.group(1) + "0" of the first entry of that name that
\* matches, None (<<>>) when there is none
RECURSIVE get_mwd_version(_, _)
get_mwd_version(tool_name, tools_data) ==
    IF tools_data = <<>> THEN <<>>
    ELSE LET tool == Head(tools_data)
             match == MwdSearch(tool.VERSION, 1)
         IN  IF tool.NAME = tool_name /\ match # <<>>
             THEN match \o <<"0">>
             ELSE get_mwd_version(tool_name, Tail(tools_data))

\* mutant: the boundaries belong to the larger bucket
get_size_strict(section_size) ==
    IF section_size < 75 THEN "4.75"
    ELSE IF section_size < 100 THEN "6.75"
    ELSE IF section_size < 150 THEN "8.25"
    ELSE "9.0"

\* get_size, section_size in tenths of an inch
get_size(section_size) ==
    IF section_size <= 75 THEN "4.75"
    ELSE IF section_size <= 100 THEN "6.75"
    ELSE IF section_size <= 150 THEN "8.25"
    ELSE "9.0"

\* mutant: one row per entry of tool_names, in the order of the entries
select_tools_from_db_perEntry(tool_names) ==
    LET RowOf(name) == SelectSeq(Catalog, LAMBDA row : row.display_name = name)
        RECURSIVE Rows(_)
        Rows(k) == IF k > Len(tool_names) THEN <<>> ELSE RowOf(tool_names[k]) \o Rows(k + 1)
    IN  Rows(1)

\* SQLHandler.select_tools_from_db: WHERE DisplayToolName IN (...) GROUP BY
\* ToolID, ...: one row per tool of the catalog, in the order of the group key
select_tools_from_db(tool_names) ==
    SelectSeq(Catalog, LAMBDA row : \E k \in 1..Len(tool_names) : tool_names[k] = row.display_name)

\* SQLHandler.select_tool_latest_version_from_db
select_tool_latest_version_from_db(tool_id) ==
    LET rows == SelectSeq(Catalog, LAMBDA row : row.tool_id = tool_id)
    IN  IF rows # <<>> /\ rows[1].versions # <<>> THEN rows[1].versions[1] ELSE <<"N", "o", "n", "e">>

\* the loop of get_tools_list over one TOOL
ResolveTool(row, tools_data, section_size) ==
    LET rtof_version == get_mwd_version(row.display_name, tools_data)
    IN  IF row.is_mwd
        THEN [tool_id |-> row.tool_id, display_name |-> row.display_name, is_mwd |-> TRUE,
              version |-> IF rtof_version # <<>>
                          THEN IF row.tool_id = "DVDXTTOOL" /\ rtof_version = <<"8", "0">>
                               THEN <<"1", "0", "0">>
                               ELSE rtof_version
                          ELSE select_tool_latest_version_from_db(row.tool_id),
              size |-> "None"]
        ELSE [tool_id |-> row.tool_id, display_name |-> row.display_name, is_mwd |-> FALSE,
              version |-> get_lwd_version(row.display_name, tools_data),
              size |-> get_size(section_size)]

get_tools_list(tools_data, section_size) ==
    LET tools_query == select_tools_from_db([k \in 1..Len(tools_data) |-> tools_data[k].NAME])
    IN  [k \in 1..Len(tools_query) |-> ResolveTool(tools_query[k], tools_data, section_size)]

ToolLists == UNION {[1..n -> ToolEntries] : n \in 0..MaxTools}

InitTools ==
    /\ Idle
    /\ inp \in {<<[tools_data |-> tools_data, section_size |-> section_size]>> :
                    tools_data \in ToolLists, section_size \in SectionSizes}
    /\ out = NoValue

GetToolsList ==
    /\ out = NoValue
    /\ out' = <<get_tools_list(inp[1].tools_data, inp[1].section_size)>>
    /\ UNCHANGED <<store, hspm_version, pc, data, local, resp, wrote, done_ok, received, sql, inp>>

SpecTools == InitTools /\ [][GetToolsList]_vars

\* ------------------------------------------------------------------ claim C19

\* the names of the entries of tools_data, and the display names of the tools returned
EntryNames == [k \in 1..Len(inp[1].tools_data) |-> inp[1].tools_data[k].NAME]
ReturnedNames == [k \in 1..Len(out[1]) |-> out[1][k].display_name]

\* the place of a tool in the catalog's order of tool ids
CatalogPlace(tool_id) == CHOOSE c \in 1..Len(Catalog) : Catalog[c].tool_id = tool_id

\* C19: get_tools_list returns at most one record per entry, in the order of
\* the entries: the entries with the names the catalog does not hold removed.
C19_InputOrder ==
    out # NoValue =>
        ReturnedNames = SelectSeq(EntryNames, LAMBDA name : name \in {"DVDXT", "ECO", "IMP"})

\* C19 (amended): get_tools_list returns one record for each tool of the
\* catalog whose display name is the name of some entry, however many entries
\* carry the name, in the catalog's order of tool ids; a name the catalog does
\* not hold gives no record and no error.
C19_CatalogOrder ==
    out # NoValue =>
        /\ \A c \in 1..Len(Catalog) :
              (\E k \in 1..Len(EntryNames) : EntryNames[k] = Catalog[c].display_name)
                  <=> (\E k \in 1..Len(out[1]) : out[1][k].tool_id = Catalog[c].tool_id)
        /\ \A k \in 1..Len(out[1]) :
              /\ \E c \in 1..Len(Catalog) :
                    /\ Catalog[c].tool_id = out[1][k].tool_id
                    /\ Catalog[c].display_name = out[1][k].display_name
              /\ \A l \in 1..Len(out[1]) :
                    k < l => CatalogPlace(out[1][k].tool_id) < CatalogPlace(out[1][l].tool_id)

\* two tools were asked for in the order opposite to the catalog's
C19_Witness ==
    /\ out # NoValue
    /\ EntryNames = <<"IMP", "DVDXT">>
    /\ ReturnedNames = <<"DVDXT", "IMP">>

\* ------------------------------------------------------------------ claim C20

\* the major number each version text holds, <<>> when it holds no version
MajorOf(text) ==
    IF text \in {<<"v", "1", "6", ".", "0">>, <<"v", " ", "1", "6">>} THEN <<"1", "6">>
    ELSE IF text = <<"V", "8", ".", "0">> THEN <<"8">>
    ELSE <<>>

\* the latest version the catalog knows for a tool id
LatestOf(tool_id) ==
    IF tool_id = "DVDXTTOOL" THEN <<"1", "1", "0">>
    ELSE IF tool_id = "IMPTOOL" THEN <<"1", "7", "0">>
    ELSE <<"7", "1">>

\* C20: the version of an MWD tool is the major number of its version text
\* followed by "0", the minor part ignored; "100" for DVDXTTOOL when that gives
\* "80"; the catalog's latest version of the tool when no version text of the
\* tool parses. Of several entries of one name the first that parses counts.
C20_MwdVersion ==
    out # NoValue =>
        \A k \in 1..Len(out[1]) :
            LET tool == out[1][k]
                parsed == SelectSeq(inp[1].tools_data,
                                    LAMBDA e : e.NAME = tool.display_name /\ MajorOf(e.VERSION) # <<>>)
            IN  tool.is_mwd =>
                    tool.version =
                        IF parsed = <<>> THEN LatestOf(tool.tool_id)
                        ELSE IF tool.tool_id = "DVDXTTOOL" /\ MajorOf(parsed[1].VERSION) = <<"8">>
                        THEN <<"1", "0", "0">>
                        ELSE MajorOf(parsed[1].VERSION) \o <<"0">>

\* DVDXT got "100" for a text with major 8, and IMP got "160" for "v 16"
C20_Witness ==
    /\ out # NoValue
    /\ inp[1].tools_data = <<[NAME |-> "IMP", VERSION |-> <<"v", " ", "1", "6">>],
                             [NAME |-> "DVDXT", VERSION |-> <<"V", "8", ".", "0">>]>>
    /\ out[1][1].version = <<"1", "0", "0">>
    /\ out[1][2].version = <<"1", "6", "0">>

\* ================================ the status of a build without packing error
\* (utility.py main, lines 763-823, and update_fsl), as a function of the
\* requested framesets and of the output of the packing service

StatusFramesets == <<"fsl1", "fsl2">>

\* rop of models.FSL(), the frameset the request does not describe
DefaultRop == 100

Rops == {50, 100}
NoFsl == 0

\* data.get(fslN): the ROP of each frameset the request describes, NoFsl for the others
FslRequests == [{"fsl1", "fsl2"} -> Rops \cup {NoFsl}]

\* frame_generator_output.get(fslN).get("Parameters").get("ROP"), NoFsl when
\* the output holds nothing for the frameset
FslOutputs == [{"fsl1", "fsl2"} -> Rops \cup {NoFsl}]

\* frame_request.fslN.rop before the packing: get_fsl_data(...) or models.FSL()
RequestRop(requested, fsl) == IF requested[fsl] # NoFsl THEN requested[fsl] ELSE DefaultRop

\* mutant: only the first frameset is compared
StatusFor_firstOnly(requested, output) ==
    IF output["fsl1"] # NoFsl /\ output["fsl1"] # RequestRop(requested, "fsl1") THEN 209 ELSE 200

\* lines 763-800: status = 200, set to 209 by each frameset of the output whose
\* ROP differs from frame_request.fslN.rop
StatusFor(requested, output) ==
    IF \E k \in 1..Len(StatusFramesets) :
           LET fsl == StatusFramesets[k]
           IN  output[fsl] # NoFsl /\ output[fsl] # RequestRop(requested, fsl)
    THEN 209 ELSE 200

\* update_fsl: frame_set.rop = fsl_data.get("Parameters", ...).get("ROP", frame_set.rop)
update_fsl(requested, output) ==
    [fsl \in {"fsl1", "fsl2"} |->
        IF output[fsl] # NoFsl THEN output[fsl] ELSE RequestRop(requested, fsl)]

\* convert_to_xml(frame_request): the document carries the ROP of each frameset
convert_to_xml(rops) == <<"<Run>", rops, "</Run>">>

InitStatus ==
    /\ store \in {[[d \in DBs |-> [u \in UIDs \cup {NoUid} |-> Absent]]
                      EXCEPT ![InitialHspmVersion]["u1"] = rec] : rec \in {Absent, PendingRec}}
    /\ hspm_version = [w \in Workers |-> InitialHspmVersion]
    /\ pc = [w \in Workers |-> "idle"]
    /\ data = [w \in Workers |-> NoData]
    /\ local = [w \in Workers |-> NoLocal]
    /\ resp = NoResp
    /\ wrote = {}
    /\ done_ok = {}
    /\ received = 0
    /\ sql = NoSql
    /\ inp \in {<<[requested |-> requested, output |-> output]>> :
                    requested \in FslRequests, output \in FslOutputs}
    /\ out = NoValue

\* main from line 763 on, for the request of uid "u1" and an empty error mapping
MainStatus ==
    /\ out = NoValue
    /\ LET status == StatusFor(inp[1].requested, inp[1].output)
           xml_string == convert_to_xml(update_fsl(inp[1].requested, inp[1].output))
       IN  /\ store' = [store EXCEPT ![hspm_version[1]] =
                           update_xml_in_sqlite(@, "u1", xml_string, status)]
           /\ out' = <<[xml_string |-> xml_string, status |-> status]>>
    /\ UNCHANGED <<hspm_version, pc, data, local, resp, wrote, done_ok, received, sql, inp>>

SpecStatus == InitStatus /\ [][MainStatus]_vars

\* ------------------------------------------------------------------ claim C15

\* C15: a build without packing error returns 209 when the ROP the output
\* holds for some frameset differs from the ROP of that frameset in the
\* request (the default 100 for a frameset the request does not describe) and
\* 200 when none differs; the status stored with the document is the status
\* returned.
C15_Status209OnRopChange ==
    out # NoValue =>
        LET requested == inp[1].requested
            output == inp[1].output
            Changed(fsl) ==
                /\ output[fsl] # 0
                /\ output[fsl] # (IF requested[fsl] # 0 THEN requested[fsl] ELSE 100)
            rec == store["RTDPointCatalog_2025_0.db"]["u1"]
        IN  /\ out[1].status = IF Changed("fsl1") \/ Changed("fsl2") THEN 209 ELSE 200
            /\ rec # [doc |-> <<>>, status |-> 0] =>
                   rec.status = out[1].status /\ rec.doc = out[1].xml_string

\* only the second frameset came back with another ROP; 209 returned and stored
C15_Witness ==
    /\ out # NoValue
    /\ inp[1].requested = [fsl1 |-> 100, fsl2 |-> 50]
    /\ inp[1].output = [fsl1 |-> 100, fsl2 |-> 100]
    /\ out[1].status = 209
    /\ store["RTDPointCatalog_2025_0.db"]["u1"].status = 209

\* ------------------------------------------------------------------ claim C28

\* C28: a finalizing write never creates a record: when the UID has no record
\* at the time of the write, the store is left as it is and the UID stays
\* ABSENT, while the request still reports its outcome to the caller.
C28_FinalizeNeverCreates ==
    [][\A w \in Workers :
          /\ (pc[w] = "main" /\ pc'[w] = "save") =>
                 \A d \in DBs : store[d][data[w].uid] = [doc |-> <<>>, status |-> 0] =>
                     store'[d][data[w].uid] = [doc |-> <<>>, status |-> 0]
          /\ ((Returns(w, "save") \/ Returns(w, "except"))
                 /\ store[DbOf(w)][data[w].uid] = [doc |-> <<>>, status |-> 0]) =>
                 /\ store' = store
                 /\ resp'.code \in {200, 209, 406}
                 /\ resp'.uid = data[w].uid]_vars

\* a request reported a finished build while its UID had no record
C28_Witness ==
    /\ resp.req # 0 /\ resp.code \in {200, 209}
    /\ resp.message = <<"Frame generated successfully!">>
    /\ wrote = {}
    /\ store[resp.db][resp.uid] = [doc |-> <<>>, status |-> 0]

\* ------------------------------------------------------------------ claim C29

\* C29: the message a request takes from a FAILED record is the message that
\* was stored in it, whatever its text, a text that holds " | " included.
C29_MessageRoundTrip ==
    [][\A w \in Workers, k \in Keys :
          (Arrives(w, k[1], k[2]) /\ pc'[w] = "clear") =>
              store[k[1]][k[2]].doc = <<"FAILED">> \o local'[w].error]_vars

\* ============================================ get_size on pairs of section sizes

\* section sizes in tenths of an inch, around the three boundaries
SizeSamples == {0, 70, 75, 76, 80, 100, 101, 120, 150, 151, 160, 200}

InitSize ==
    /\ Idle
    /\ inp \in {<<[first |-> s1, second |-> s2]>> : s1 \in SizeSamples, s2 \in SizeSamples}
    /\ out = NoValue

GetSize ==
    /\ out = NoValue
    /\ out' = <<[first |-> get_size(inp[1].first), second |-> get_size(inp[1].second)]>>
    /\ UNCHANGED <<store, hspm_version, pc, data, local, resp, wrote, done_ok, received, sql, inp>>

SpecSize == InitSize /\ [][GetSize]_vars

\* ------------------------------------------------------------------ claim C21

\* the tool sizes in increasing order
SizeRank(size) ==
    IF size = "4.75" THEN 1 ELSE IF size = "6.75" THEN 2 ELSE IF size = "8.25" THEN 3 ELSE 4

\* C21: get_size never gives a larger section a smaller tool size, and follows
\* the table: s <= 7.5 "4.75", 7.5 < s <= 10 "6.75", 10 < s <= 15 "8.25",
\* s > 15 "9.0", the boundaries belonging to the smaller bucket.
C21_SizeBuckets ==
    out # NoValue =>
        LET s == inp[1].first
        IN  /\ inp[1].first <= inp[1].second => SizeRank(out[1].first) <= SizeRank(out[1].second)
            /\ out[1].first \in {"4.75", "6.75", "8.25", "9.0"}
            /\ s <= 75 <=> out[1].first = "4.75"
            /\ (75 < s /\ s <= 100) <=> out[1].first = "6.75"
            /\ (100 < s /\ s <= 150) <=> out[1].first = "8.25"
            /\ s > 150 <=> out[1].first = "9.0"

\* the two sides of the middle boundary were classified
C21_Witness ==
    /\ out # NoValue
    /\ inp[1].first = 100 /\ inp[1].second = 101
    /\ out[1].first = "6.75" /\ out[1].second = "8.25"

\* ================================= equality and hash of DPOINT and TOOL records
\* (models.py DPOINT and TOOL: __post_init__, __eq__, __hash__)

\* int(text) and bool(int(text)) of __post_init__, for the texts of the samples
ToInt(text) ==
    IF text = "101" THEN 101 ELSE IF text = "102" THEN 102 ELSE IF text = "10" THEN 10 ELSE 11
ToBool(text) == text # "0"

\* the arguments of DPOINT(...), datpid and is_mwd given as text
DpointArgs ==
    [name : {"Gamma", "Res"}, datpid : {"101", "102"}, length : {4, 8},
     is_mwd : {"1", "0"}, ltb_addr : {10, 11}, description : {"Test", "Other"},
     time : {"None", "5"}, depth : {"None", "3"}]

\* the arguments of TOOL(...), ltb_addr and is_mwd given as text
ToolArgs ==
    [tool_id : {"MWD_001", "MWD_002"}, display_name : {"MWD Tool", "Another Tool"},
     ltb_addr : {"10", "11"}, is_mwd : {"1", "0"}, dpoint_suffix : {"_mwd", "_lwd"},
     version : {"1.0", "2.0"}, size : {"None", "6.75"}, tr_spacing : {"None", "100"},
     rt_blocksize : {"None", "2"}]

\* DPOINT.__post_init__ on text arguments
DPOINT(args) == [args EXCEPT !.datpid = ToInt(@), !.is_mwd = ToBool(@)]

\* TOOL.__post_init__ on text arguments
TOOL(args) == [args EXCEPT !.ltb_addr = ToInt(@), !.is_mwd = ToBool(@)]

\* mutant: the bit length is left out of the key
DpointKey_noLength(self) == <<self.name, self.datpid, self.ltb_addr, self.is_mwd>>

\* the tuple DPOINT.__eq__ and DPOINT.__hash__ are built on
DpointKey(self) == <<self.name, self.datpid, self.ltb_addr, self.is_mwd, self.length>>

\* the tuple TOOL.__eq__ and TOOL.__hash__ are built on
ToolKey(self) ==
    <<self.tool_id, self.display_name, self.ltb_addr, self.is_mwd, self.dpoint_suffix>>

\* hash(tuple): a number computed from the elements alone; different tuples can collide
HashRange == 8
TextCode(text) ==
    IF text \in {"Gamma", "MWD_001", "MWD Tool", "_mwd"} THEN 1 ELSE 2
BoolCode(flag) == IF flag THEN 1 ELSE 0
RECURSIVE hash(_)
hash(codes) ==
    IF codes = <<>> THEN 0 ELSE (3 * hash(Tail(codes)) + Head(codes)) % HashRange

\* DPOINT.__hash__ and TOOL.__hash__
DpointHash(self) ==
    LET key == DpointKey(self)
    IN  hash(<<TextCode(key[1]), key[2], key[3], BoolCode(key[4])>> \o SubSeq(key, 5, Len(key)))
ToolHash(self) ==
    LET key == ToolKey(self)
    IN  hash(<<TextCode(key[1]), TextCode(key[2]), key[3], BoolCode(key[4]), TextCode(key[5])>>)

\* DPOINT.__eq__ and TOOL.__eq__ between two records of the class
DpointEq(self, other) == DpointKey(self) = DpointKey(other)
ToolEq(self, other) == ToolKey(self) = ToolKey(other)

\* the first record of each comparison
FirstDpoint ==
    [name |-> "Gamma", datpid |-> 101, length |-> 4, is_mwd |-> TRUE, ltb_addr |-> 10,
     description |-> "Test", time |-> "None", depth |-> "None"]
FirstTool ==
    [tool_id |-> "MWD_001", display_name |-> "MWD Tool", ltb_addr |-> 10, is_mwd |-> TRUE,
     dpoint_suffix |-> "_mwd", version |-> "1.0", size |-> "None", tr_spacing |-> "None",
     rt_blocksize |-> "None"]

InitModels ==
    /\ Idle
    /\ inp \in {<<"DPOINT", FirstDpoint, args>> : args \in DpointArgs}
                  \cup {<<"TOOL", FirstTool, args>> : args \in ToolArgs}
    /\ out = NoValue

\* the first record was built from numbers, the second from text
CompareDpoints ==
    /\ out = NoValue
    /\ inp[1] = "DPOINT"
    /\ LET self == inp[2]
           other == DPOINT(inp[3])
       IN  out' = <<[eq |-> DpointEq(self, other),
                     hash_self |-> DpointHash(self), hash_other |-> DpointHash(other)]>>
    /\ UNCHANGED <<store, hspm_version, pc, data, local, resp, wrote, done_ok, received, sql, inp>>

CompareTools ==
    /\ out = NoValue
    /\ inp[1] = "TOOL"
    /\ LET self == inp[2]
           other == TOOL(inp[3])
       IN  out' = <<[eq |-> ToolEq(self, other),
                     hash_self |-> ToolHash(self), hash_other |-> ToolHash(other)]>>
    /\ UNCHANGED <<store, hspm_version, pc, data, local, resp, wrote, done_ok, received, sql, inp>>

NextModels == CompareDpoints \/ CompareTools

SpecModels == InitModels /\ [][NextModels]_vars

\* ------------------------------------------------------------------ claim C22

\* C22: two DataPoint records are equal exactly when they agree on name,
\* catalog id, bus address, MWD flag and bit length, two Tool records exactly
\* when they agree on tool id, display name, bus address, MWD flag and suffix;
\* the other fields do not count, and equal records have equal hashes.
C22_IdentityFields ==
    out # NoValue =>
        LET b == inp[3]
        IN  /\ inp[1] = "DPOINT" =>
                   (out[1].eq <=> /\ b.name = "Gamma" /\ b.datpid = "101" /\ b.ltb_addr = 10
                                  /\ b.is_mwd = "1" /\ b.length = 4)
            /\ inp[1] = "TOOL" =>
                   (out[1].eq <=> /\ b.tool_id = "MWD_001" /\ b.display_name = "MWD Tool"
                                  /\ b.ltb_addr = "10" /\ b.is_mwd = "1"
                                  /\ b.dpoint_suffix = "_mwd")
            /\ out[1].eq => out[1].hash_self = out[1].hash_other

\* two DataPoint records that differ in description, time and depth only
\* compared equal
C22_Witness ==
    /\ out # NoValue
    /\ inp[1] = "DPOINT"
    /\ inp[3].description = "Other" /\ inp[3].time = "5" /\ inp[3].depth = "3"
    /\ out[1].eq
    /\ out[1].hash_self = out[1].hash_other

\* ==================================== the frameset blocks of the document
\* (export_to_fbw.py convert_to_xml, lines 37 and 78-104; utility.py lines 712-713)

\* the tools a request can resolve to: tool id and MWD flag
XmlTools ==
    {[tool_id |-> "SPTOOL", is_mwd |-> TRUE], [tool_id |-> "DVDXTTOOL", is_mwd |-> TRUE],
     [tool_id |-> "IMPTOOL", is_mwd |-> TRUE], [tool_id |-> "ECOTOOL", is_mwd |-> FALSE]}

\* frame requests that passed the MWD check of main: tools and num_of_fsl
XmlRequests ==
    {r \in [tools : [1..1 -> XmlTools] \cup [1..2 -> XmlTools], num_of_fsl : 1..6] :
        \E k \in 1..Len(r.tools) : r.tools[k].is_mwd}

\* next(tool for tool in frame_request.tools if bool(tool.is_mwd))
RECURSIVE FirstMwd(_)
FirstMwd(tools) == IF Head(tools).is_mwd THEN Head(tools) ELSE FirstMwd(Tail(tools))

\* utility.py lines 712-713
CapNumOfFsl(frame_request) ==
    IF FirstMwd(frame_request.tools).tool_id = "DVDXTTOOL" /\ frame_request.num_of_fsl > 3
    THEN [frame_request EXCEPT !.num_of_fsl = 3]
    ELSE frame_request

\* mutant: as many framesets as the request asks for
fsl_list_asRequested(frame_request) ==
    SubSeq(<<"fsl1", "fsl2", "fsl3", "fsl4", "fsl5", "fsl6">>, 1, frame_request.num_of_fsl)

\* export_to_fbw.py lines 78-89
fsl_list(frame_request) ==
    LET mwd_tool == FirstMwd(frame_request.tools)
    IN  IF mwd_tool.tool_id = "SPTOOL" THEN <<"fsl1">>
        ELSE IF mwd_tool.tool_id = "DVDXTTOOL" THEN <<"fsl1", "fsl2", "fsl3">>
        ELSE <<"fsl1", "fsl2", "fsl3", "fsl4", "fsl5", "fsl6">>

\* the FrameSetList elements: for i, fsl in enumerate(fsl_list), Description f"FSL-{i + 1}"
FrameSetLists(frame_request) ==
    LET list == fsl_list(frame_request)
    IN  [k \in 1..Len(list) |-> [Description |-> [text |-> "FSL-", number |-> (k - 1) + 1],
                                 frameset |-> list[k]]]

InitXml ==
    /\ Idle
    /\ inp \in {<<r>> : r \in XmlRequests}
    /\ out = NoValue

ConvertToXml ==
    /\ out = NoValue
    /\ out' = <<FrameSetLists(CapNumOfFsl(inp[1]))>>
    /\ UNCHANGED <<store, hspm_version, pc, data, local, resp, wrote, done_ok, received, sql, inp>>

SpecXml == InitXml /\ [][ConvertToXml]_vars

\* ------------------------------------------------------------------ claim C23

\* tool id of the first MWD tool of a list of one or two tools
PrimaryToolId(tools) == IF tools[1].is_mwd THEN tools[1].tool_id ELSE tools[2].tool_id

\* C23: the document holds 1 frameset block when the primary MWD tool is
\* SPTOOL, 3 when it is DVDXTTOOL and 6 otherwise, numbered FSL-1 to FSL-n in
\* order, whatever number of framesets the request asks for.
C23_FramesetCount ==
    out # NoValue =>
        LET primary == PrimaryToolId(inp[1].tools)
            n == IF primary = "SPTOOL" THEN 1 ELSE IF primary = "DVDXTTOOL" THEN 3 ELSE 6
        IN  /\ Len(out[1]) = n
            /\ \A k \in 1..Len(out[1]) :
                  out[1][k].Description = [text |-> "FSL-", number |-> k]

\* a request for 5 framesets with DVDXTTOOL behind an LWD tool got 3 blocks
C23_Witness ==
    /\ out # NoValue
    /\ inp[1].num_of_fsl = 5
    /\ Len(inp[1].tools) = 2
    /\ inp[1].tools[1].tool_id = "ECOTOOL" /\ inp[1].tools[2].tool_id = "DVDXTTOOL"
    /\ Len(out[1]) = 3

\* ================================== the token rules of get_dpoint_list
\* (utility.py lines 46-111), as a function of dpoint_list and tools

MaxTokens == 3

\* the tokens of the sample lists
Tokens ==
    {"TF_b", "TFHI_b", "DDR_RT_1_r1", "DDR_RT_2_r1", "O_RBIT_gvr",
     "CS3PK_H_mp", "SCLP_mp", "CSSTAT_mp"}

TokenLists == UNION {[1..n -> Tokens] : n \in 0..MaxTokens}

\* the resolved tools of the sample requests: display name, version, size
RuleTools ==
    {<<[display_name |-> "IMP", version |-> "160", size |-> "None"]>>,
     <<[display_name |-> "IMP", version |-> "160", size |-> "None"],
       [display_name |-> "RTA", version |-> "1.0", size |-> "6.75"]>>,
     <<[display_name |-> "IMP", version |-> "160", size |-> "None"],
       [display_name |-> "MP3", version |-> "8.5", size |-> "6.75"]>>,
     <<[display_name |-> "IMP", version |-> "160", size |-> "None"],
       [display_name |-> "MP3", version |-> "7.7", size |-> "4.75"]>>,
     <<[display_name |-> "CLNK", version |-> "2.0", size |-> "4.75"],
       [display_name |-> "MP3", version |-> "8.7", size |-> "4.75"]>>,
     <<[display_name |-> "IMP", version |-> "160", size |-> "None"],
       [display_name |-> "MP3", version |-> "9.1", size |-> "9.0"]>>}

\* token in dpoint_list
Has(dpoint_list, token) == \E k \in 1..Len(dpoint_list) : dpoint_list[k] = token

\* dpoint_list.pop(dpoint_list.index(token)): the first occurrence is removed
Pop(dpoint_list, token) ==
    LET index == CHOOSE k \in 1..Len(dpoint_list) :
                     dpoint_list[k] = token /\ \A j \in 1..(k - 1) : dpoint_list[j] # token
    IN  SubSeq(dpoint_list, 1, index - 1) \o SubSeq(dpoint_list, index + 1, Len(dpoint_list))

\* lines 51-53
RuleTfb(dpoint_list, tools) ==
    IF /\ \E k \in 1..Len(tools) : tools[k].display_name \in {"RTA", "CLNK"}
       /\ Has(dpoint_list, "TF_b")
    THEN Append(Pop(dpoint_list, "TF_b"), "TFHI_b")
    ELSE dpoint_list

\* lines 55-74: the first token is removed when it stands beside one of the others
RuleDrop(dpoint_list, token, others) ==
    IF (\E other \in others : Has(dpoint_list, other)) /\ Has(dpoint_list, token)
    THEN Pop(dpoint_list, token)
    ELSE dpoint_list

RuleDrops(dpoint_list) ==
    LET l1 == RuleDrop(dpoint_list, "DDR_RT_1_r1", {"DDR_RT_2_r1", "DDR_RT_3_r1", "DDR_RT_4_r1"})
        l2 == RuleDrop(l1, "DDR_RT_1_r2", {"DDR_RT_2_r2", "DDR_RT_3_r2", "DDR_RT_4_r2"})
        l3 == RuleDrop(l2, "DDR_RT_1_r3", {"DDR_RT_2_r3", "DDR_RT_3_r3", "DDR_RT_4_r3"})
        l4 == RuleDrop(l3, "C_PKPO4_s", {"C_PKPO3_s"})
        l5 == RuleDrop(l4, "O_grcnt_c", {"GRCNTX_c", "GRCNT_c"})
        l6 == RuleDrop(l5, "O_RHOB_v", {"RHOB_v", "ROBB_v"})
    IN  RuleDrop(l6, "O_DRHO_v", {"DRHO_v", "DRHB_v"})

\* next(tool for tool in tools if tool.display_name == "MP3"): the tools of that
\* name; next raises StopIteration when there is none
Mp3Tools(tools) == SelectSeq(tools, LAMBDA tool : tool.display_name = "MP3")

\* lines 76-78
RuleSclp(dpoint_list, tools) ==
    IF ~Has(dpoint_list, "CS3PK_H_mp") THEN [raised |-> "none", list |-> dpoint_list]
    ELSE IF Mp3Tools(tools) = <<>> THEN [raised |-> "StopIteration", list |-> dpoint_list]
    ELSE IF Mp3Tools(tools)[1].version \in {"7.7", "8.4", "8.5", "8.7"}
            /\ ~Has(dpoint_list, "SCLP_mp")
    THEN [raised |-> "none", list |-> Append(dpoint_list, "SCLP_mp")]
    ELSE [raised |-> "none", list |-> dpoint_list]

\* lines 80-86
RuleAet(dpoint_list, tools) ==
    IF ~Has(dpoint_list, "CSSTAT_mp") THEN [raised |-> "none", list |-> dpoint_list]
    ELSE IF Mp3Tools(tools) = <<>> THEN [raised |-> "StopIteration", list |-> dpoint_list]
    ELSE IF /\ Mp3Tools(tools)[1].version \in {"8.5", "8.7"}
            /\ Mp3Tools(tools)[1].size \in {"8.25", "6.75", "9.0"}
            /\ ~Has(dpoint_list, "AET_mp")
    THEN [raised |-> "none", list |-> Append(dpoint_list, "AET_mp")]
    ELSE [raised |-> "none", list |-> dpoint_list]

\* lines 109-111
RuleRbit(dpoint_list) ==
    IF Has(dpoint_list, "O_RBIT_gvr")
    THEN Append(Pop(dpoint_list, "O_RBIT_gvr"), "RESBIT_gvr")
    ELSE dpoint_list

\* lines 46-111, the rules in the order of the code: the token list handed to
\* the catalog query, or the exception that ends the call
CorrectTokens(dpoint_list, tools) ==
    LET sclp == RuleSclp(RuleDrops(RuleTfb(dpoint_list, tools)), tools)
        aet == RuleAet(sclp.list, tools)
    IN  IF sclp.raised # "none" THEN sclp
        ELSE IF aet.raised # "none" THEN aet
        ELSE [raised |-> "none", list |-> RuleRbit(aet.list)]

InitRules ==
    /\ Idle
    /\ inp \in {<<[dpoint_list |-> dpoint_list, tools |-> tools]>> :
                    dpoint_list \in TokenLists, tools \in RuleTools}
    /\ out = NoValue

\* the rules applied to the list, and applied again to their result
ApplyRules ==
    /\ out = NoValue
    /\ LET once == CorrectTokens(inp[1].dpoint_list, inp[1].tools)
       IN  out' = <<[once |-> once, twice |-> CorrectTokens(once.list, inp[1].tools)]>>
    /\ UNCHANGED <<store, hspm_version, pc, data, local, resp, wrote, done_ok, received, sql, inp>>

SpecRules == InitRules /\ [][ApplyRules]_vars

\* ------------------------------------------------------------ claims C24, C30

\* C24: where the rules succeed, applying them to their own result changes
\* nothing, and after one pass no token is left that a rule removes or
\* replaces: "TF_b" with an RTA or CLNK tool, "DDR_RT_1_r1" beside a
\* higher-numbered sibling, "O_RBIT_gvr".
C24_RulesIdempotent ==
    (out # NoValue /\ out[1].once.raised = "none") =>
        LET list == out[1].once.list
            In(token) == \E k \in 1..Len(list) : list[k] = token
            rta == \E k \in 1..Len(inp[1].tools) : inp[1].tools[k].display_name \in {"RTA", "CLNK"}
        IN  /\ out[1].twice.raised = "none"
            /\ out[1].twice.list = list
            /\ rta => ~In("TF_b")
            /\ In("DDR_RT_2_r1") => ~In("DDR_RT_1_r1")
            /\ ~In("O_RBIT_gvr")

\* how often a token stands in a list
RECURSIVE Count(_, _)
Count(list, token) ==
    IF list = <<>> THEN 0
    ELSE (IF Head(list) = token THEN 1 ELSE 0) + Count(Tail(list), token)

\* C30: with "CS3PK_H_mp" or "CSSTAT_mp" in the list and no MP3 tool the rules
\* return normally and add no companion; with an MP3 tool the companion not yet
\* in the list is added once exactly when the version (for "AET_mp" also the
\* size) of the tool is allowed.
C30_CompanionWithoutMp3 ==
    out # NoValue =>
        LET given == inp[1].dpoint_list
            tools == inp[1].tools
            list == out[1].once.list
            mp3 == {k \in 1..Len(tools) : tools[k].display_name = "MP3"}
            sclp == /\ Count(given, "CS3PK_H_mp") > 0
                    /\ \E k \in mp3 : tools[k].version \in {"7.7", "8.4", "8.5", "8.7"}
            aet == /\ Count(given, "CSSTAT_mp") > 0
                   /\ \E k \in mp3 : /\ tools[k].version \in {"8.5", "8.7"}
                                     /\ tools[k].size \in {"8.25", "6.75", "9.0"}
        IN  /\ out[1].once.raised = "none"
            /\ Count(list, "SCLP_mp") =
                   IF sclp /\ Count(given, "SCLP_mp") = 0 THEN 1 ELSE Count(given, "SCLP_mp")
            /\ Count(list, "AET_mp") = IF aet THEN 1 ELSE 0

\* ------------------------------------------- get_ordered_dpoint_list, update_fsl

\* data point names in the order of the catalog's ORDER BY DPOINT_NAME ASC
DpointNames == <<"O_grav_mx", "ajamcnt", "di_temp">>

\* the largest token list of a frame
MaxOrdered == 2

\* token lists as the caller supplies them, repeated tokens included
OrderedLists ==
    UNION {[1..n -> {DpointNames[k] : k \in 1..Len(DpointNames)}] : n \in 0..MaxOrdered}

\* the DPoint table of a catalog, in table order: name, DATPID, bus address
DpointRows ==
    { <<[name |-> "di_temp", datpid |-> 4504, ltb_addr |-> 10],
        [name |-> "ajamcnt", datpid |-> 4650, ltb_addr |-> 10],
        [name |-> "O_grav_mx", datpid |-> 4922, ltb_addr |-> 20]>>,
      <<[name |-> "ajamcnt", datpid |-> 4650, ltb_addr |-> 10],
        [name |-> "ajamcnt", datpid |-> 4651, ltb_addr |-> 20],
        [name |-> "di_temp", datpid |-> 4504, ltb_addr |-> 10]>>,
      <<[name |-> "ajamcnt", datpid |-> 4651, ltb_addr |-> 20],
        [name |-> "ajamcnt", datpid |-> 4650, ltb_addr |-> 10],
        [name |-> "di_temp", datpid |-> 4504, ltb_addr |-> 20]>> }

\* [tool.ltb_addr for tool in tools] of the resolved tools
ToolAddrs == {<<10>>, <<20>>, <<10, 20>>}

\* whether an element stands in a sequence
Among(seq, element) == \E k \in 1..Len(seq) : seq[k] = element

\* the rows of the named data points on the given bus addresses, by name
RECURSIVE ByName(_, _)
ByName(rows, k) ==
    IF k > Len(DpointNames) THEN <<>>
    ELSE SelectSeq(rows, LAMBDA row : row.name = DpointNames[k]) \o ByName(rows, k + 1)

select_dpoints_from_db_with_tools(catalog, dpoint_names, tools) ==
    ByName(SelectSeq(catalog, LAMBDA row : /\ Among(tools, row.ltb_addr)
                                           /\ Among(dpoint_names, row.name)), 1)

\* next(x for x in unique_dpoints if dpoint_string == x.name): the places of the rows
Matches(unique_dpoints, dpoint_string) ==
    {k \in 1..Len(unique_dpoints) : unique_dpoints[k].name = dpoint_string}

Min(places) == CHOOSE k \in places : \A other \in places : k <= other

get_ordered_dpoint_list_asQueried(catalog, dpoint_list, tools) ==
    LET unique_dpoints == select_dpoints_from_db_with_tools(catalog, dpoint_list, tools)
    IN  [raised |-> \E k \in 1..Len(dpoint_list) : Matches(unique_dpoints, dpoint_list[k]) = {},
         dpoints |-> unique_dpoints]

\* one data point for each token of dpoint_list, in its order; StopIteration
\* leaves the function at the first token without a row
get_ordered_dpoint_list(catalog, dpoint_list, tools) ==
    LET unique_dpoints == select_dpoints_from_db_with_tools(catalog, dpoint_list, tools)
        raised == \E k \in 1..Len(dpoint_list) : Matches(unique_dpoints, dpoint_list[k]) = {}
    IN  [raised |-> raised,
         dpoints |-> IF raised THEN <<>>
                     ELSE [k \in 1..Len(dpoint_list) |->
                              unique_dpoints[Min(Matches(unique_dpoints, dpoint_list[k]))]]]

\* update_fsl, lines 590-592: mtf, gtf and rotary in turn from the output of
\* the packing service; an exception ends it and fails the request
UpdateFslFrames(catalog, fsl_data, tools) ==
    LET mtf == get_ordered_dpoint_list(catalog, fsl_data.mtf, tools)
        gtf == get_ordered_dpoint_list(catalog, fsl_data.gtf, tools)
        rotary == get_ordered_dpoint_list(catalog, fsl_data.rotary, tools)
    IN  [raised |-> mtf.raised \/ gtf.raised \/ rotary.raised,
         mtf |-> mtf.dpoints,
         gtf |-> IF mtf.raised THEN <<>> ELSE gtf.dpoints,
         rotary |-> IF mtf.raised \/ gtf.raised THEN <<>> ELSE rotary.dpoints]

InitOrdered ==
    /\ Idle
    /\ inp \in {<<[catalog |-> catalog, tools |-> tools,
                   fsl_data |-> [mtf |-> mtf, gtf |-> gtf, rotary |-> rotary]]>> :
                    catalog \in DpointRows, tools \in ToolAddrs,
                    mtf \in OrderedLists, gtf \in OrderedLists, rotary \in OrderedLists}
    /\ out = NoValue

UpdateFsl ==
    /\ out = NoValue
    /\ out' = <<UpdateFslFrames(inp[1].catalog, inp[1].fsl_data, inp[1].tools)>>
    /\ UNCHANGED <<store, hspm_version, pc, data, local, resp, wrote, done_ok, received, sql, inp>>

SpecOrdered == InitOrdered /\ [][UpdateFsl]_vars

\* ------------------------------------------------------------------ claim C25

\* the names of a list of data points
NamesOf(dpoints) == [k \in 1..Len(dpoints) |-> dpoints[k].name]

\* whether the catalog holds the token on one of the tools' bus addresses
Catalogued(token) ==
    \E k \in 1..Len(inp[1].catalog) : /\ inp[1].catalog[k].name = token
                                      /\ Among(inp[1].tools, inp[1].catalog[k].ltb_addr)

MaxBuilds == 2

\* the most tools of one request
MaxOdfTools == 2

\* (tool_id, version) of the tools that may be resolved
OdfKeys == {<<"MP3TOOL", "8.5">>, <<"IMPTOOL", "7.0">>, <<"RTATOOL", "1.0">>}

NoKey == <<"", "">>

\* on-demand token lists a tool may have at a version; none is the empty list
OdfLists == {<<>>, <<"rgx">>, <<"sticknslip", "rgx">>, <<"SHKLV_mx", "sticknslip">>}

\* FRAME_LIBRATY.ODF: one list object for each tool at each version, held by
\* the module for as long as the service runs
OdfTables == [OdfKeys -> OdfLists]

\* the resolved tools of a request, in resolution order
OdfTools ==
    {tools \in UNION {[1..n -> OdfKeys] : n \in 1..MaxOdfTools} :
        \A j, k \in 1..Len(tools) : j # k => tools[j] # tools[k]}

Items(list) == {list[k] : k \in 1..Len(list)}

\* lines 715-724: odf is a new list until a tool has tokens; then it IS the
\* list object the table holds for that tool (odf = temp), and the tokens of
\* later tools are appended to that object
RECURSIVE OdfLoop(_, _, _, _, _)
OdfLoop(table, tools, k, odf, held) ==
    IF k > Len(tools) THEN [odf |-> odf, held |-> held]
    ELSE LET temp == IF tools[k] = held THEN odf ELSE table[tools[k]]
         IN  IF odf # <<>>
             THEN LET unique == Items(odf)
                  IN  OdfLoop(table, tools, k + 1,
                              odf \o SelectSeq(temp, LAMBDA item : item \notin unique), held)
             ELSE OdfLoop(table, tools, k + 1, temp, IF temp # <<>> THEN tools[k] ELSE NoKey)

\* the table after the loop: the list object odf names has grown in place
OdfTableAfter(table, loop) ==
    IF loop.held # NoKey THEN [table EXCEPT ![loop.held] = loop.odf] ELSE table

InitOdf ==
    /\ Idle
    /\ inp \in {<<[table |-> table]>> : table \in OdfTables}
    /\ out = <<[table |-> inp[1].table, tools |-> <<>>, flag |-> FALSE, odf_frame |-> <<>>,
                odf_required |-> FALSE, builds |-> 0]>>

\* one build: lines 691 and 715-727, the data points of the frame by their tokens
BuildOdf(tools, flag) ==
    /\ out[1].builds < MaxBuilds
    /\ LET loop == OdfLoop(out[1].table, tools, 1, <<>>, NoKey)
       IN  out' = <<[table |-> OdfTableAfter(out[1].table, loop),
                     tools |-> tools,
                     flag |-> flag,
                     odf_frame |-> loop.odf,
                     odf_required |-> (loop.odf # <<>>),
                     builds |-> out[1].builds + 1]>>
    /\ UNCHANGED <<store, hspm_version, pc, data, local, resp, wrote, done_ok, received, sql, inp>>

NextOdf == \E tools \in OdfTools, flag \in BOOLEAN : BuildOdf(tools, flag)

SpecOdf == InitOdf /\ [][NextOdf]_vars

\* ------------------------------------------------------------ claims C26, C27

\* the union of the lists, in first-seen order and without repeated tokens
RECURSIVE FirstSeen(_, _)
FirstSeen(lists, seen) ==
    IF lists = <<>> THEN seen
    ELSE LET list == Head(lists)
             next == IF list = <<>> \/ Head(list) \in Items(seen) THEN seen
                     ELSE Append(seen, Head(list))
         IN  IF list = <<>> THEN FirstSeen(Tail(lists), seen)
             ELSE FirstSeen(<<Tail(list)>> \o Tail(lists), next)

\* C26: the on-demand frame of a build is the union, in first-seen order and
\* without repeated tokens, of the static lists of its resolved tools in
\* resolution order, and the on-demand-required flag is true exactly when the
\* union is not empty, whatever flag the request carried.
C26_OdfUnion ==
    out[1].builds > 0 =>
        LET union == FirstSeen([k \in 1..Len(out[1].tools) |-> inp[1].table[out[1].tools[k]]], <<>>)
        IN  /\ out[1].odf_frame = union
            /\ out[1].odf_required = (union # <<>>)

\* C27: after any sequence of builds the static table holds for each tool and
\* version the list it held before the first build.
C27_TableUnchanged == out[1].table = inp[1].table

====
